---- MODULE Spec2Model ----
(***************************************************************************)
(* Model of src/data/data_ingestion.py: the data-ingestion pipeline         *)
(*   load_params -> read_data -> process_data -> train_test_split ->        *)
(*   save_data, sequenced by main().                                        *)
(*                                                                         *)
(* A DataFrame is a record [columns, rows]; a row is [index, cells], where *)
(* index is the pandas index label (the row's position in the CSV) and     *)
(* cells maps each column name to a tagged value <<"str", s>> or           *)
(* <<"int", n>>.  The id column of the dataset is "tweet_id" and its text  *)
(* column is "content".                                                    *)
(***************************************************************************)
EXTENDS Integers, Sequences, FiniteSets, TLC

\* Longest enumerated input table (the 10-row scenario table is added to it).
MaxRows == 3

\* Number of times the script is run in SpecRerun.
MaxRuns == 2

\* random_state=42 in the call of train_test_split.
RANDOM_STATE == 42

StrVal(s) == <<"str", s>>
IntVal(n) == <<"int", n>>

Range(s) == {s[i] : i \in 1..Len(s)}

\* The sentiment labels of the enumerated inputs: the two kept and one other.
Labels == {"happiness", "sadness", "neutral"}

AllColumns == {"tweet_id", "sentiment", "content"}

\* The i-th data row of a CSV whose header is cols and whose i-th label is l.
CsvRow(cols, i, l) ==
    [index |-> i - 1,
     cells |-> [c \in cols |-> CASE c = "tweet_id"  -> IntVal(1000 + i)
                                 [] c = "sentiment" -> StrVal(l)
                                 [] OTHER           -> StrVal(<<"tweet", i>>)]]

\* The DataFrame pd.read_csv returns for a CSV with header cols and the
\* given labels: a RangeIndex 0..n-1 and one row per data line.
CsvTable(cols, labels) ==
    [columns |-> cols,
     rows    |-> [i \in 1..Len(labels) |-> CsvRow(cols, i, labels[i])]]

EmptyFrame == [columns |-> {}, rows |-> <<>>]

(***************************************************************************)
(* process_data (lines 44-56)                                              *)
(***************************************************************************)

\* df.drop(columns=[c]) without inplace=True: the caller's frame is untouched.
drop_inplace_noop(t, c) == t

\* df.drop(columns=[c], inplace=True): the frame the caller's name refers to
\* after the call.
drop_inplace(t, c) ==
    [columns |-> t.columns \ {c},
     rows    |-> [i \in 1..Len(t.rows) |->
                    [index |-> t.rows[i].index,
                     cells |-> [k \in t.columns \ {c} |-> t.rows[i].cells[k]]]]]

\* df['sentiment'].isin(['happiness', 'sadness']) on one row.
isin(row) == row.cells["sentiment"] \in {StrVal("happiness"), StrVal("sadness")}

\* .replace({'happiness': 0, 'sadness': 1}): the codes swapped.
replace_swapped(v) ==
    CASE v = StrVal("happiness") -> IntVal(0)
      [] v = StrVal("sadness")   -> IntVal(1)
      [] OTHER                -> v

\* .replace({'happiness': 1, 'sadness': 0}) on one cell value.
replace(v) ==
    CASE v = StrVal("happiness") -> IntVal(1)
      [] v = StrVal("sadness")   -> IntVal(0)
      [] OTHER                -> v

\* df[mask] followed by the in-place replace on the sentiment column of the
\* new frame: the kept rows, index labels and order preserved (pandas < 3,
\* where the chained in-place replace writes through to final_df).
filter_recode(t) ==
    LET kept == SelectSeq(t.rows, isin)
    IN [columns |-> t.columns,
        rows    |-> [i \in 1..Len(kept) |->
                       [index |-> kept[i].index,
                        cells |-> [k \in t.columns |->
                                     IF k = "sentiment"
                                     THEN replace(kept[i].cells[k])
                                     ELSE kept[i].cells[k]]]]]

\* process_data with drop(..., errors='ignore'): a missing tweet_id passes.
process_data_ignore_missing_id(df) ==
    LET d == drop_inplace(df, "tweet_id")
    IN IF "sentiment" \notin d.columns
       THEN [ok |-> FALSE, df |-> d, result |-> EmptyFrame,
             error |-> "KeyError", key |-> "sentiment"]
       ELSE [ok |-> TRUE, df |-> d, result |-> filter_recode(d),
             error |-> "", key |-> ""]

\* process_data(df): the outcome of the call.
\*   ok     - whether it returned
\*   df     - the caller's frame after the call (mutated by the in-place drop)
\*   result - the returned frame
\*   error  - the exception raised, key - the column the KeyError names
process_data(df) ==
    IF "tweet_id" \notin df.columns
    THEN [ok |-> FALSE, df |-> df, result |-> EmptyFrame,
          error |-> "KeyError", key |-> "tweet_id"]
    ELSE LET d == drop_inplace(df, "tweet_id")
         IN IF "sentiment" \notin d.columns
            THEN [ok |-> FALSE, df |-> d, result |-> EmptyFrame,
                  error |-> "KeyError", key |-> "sentiment"]
            ELSE [ok |-> TRUE, df |-> d, result |-> filter_recode(d),
                  error |-> "", key |-> ""]

(***************************************************************************)
(* train_test_split(final_df, test_size=test_size, random_state=42)        *)
(* (line 82).  A test_size value is [kind, num, den]: kind "f" is the      *)
(* float num/den, kind "i" the integer num, kind "none" a YAML null.       *)
(***************************************************************************)

Float(n, d) == [kind |-> "f", num |-> n, den |-> d]
Integer(n)  == [kind |-> "i", num |-> n, den |-> 1]
Null        == [kind |-> "none", num |-> 0, den |-> 1]

\* test_size=None with train_size=None: the default 0.25.
effective_test_size(ts) == IF ts.kind = "none" THEN Float(1, 4) ELSE ts

\* The range check of the split: an integer is an absolute number of test
\* rows (0 < k < n_samples), a float a fraction (0 < f < 1).
test_size_valid(ts, n) ==
    LET e == effective_test_size(ts)
    IN IF e.kind = "i"
       THEN e.num > 0 /\ e.num < n
       ELSE e.num > 0 /\ e.num < e.den

\* n_test = ceil(test_size * n_samples) for a float, test_size for an integer.
n_test_of(ts, n) ==
    LET e == effective_test_size(ts)
    IN IF e.kind = "i" THEN e.num ELSE -((-(e.num * n)) \div e.den)

\* random_state=None: the split draws from numpy's process-wide generator.
random_state_none(global) == global

\* The seed of the generator the split draws from: a fresh generator seeded
\* with the random_state argument, whatever the state (global) of numpy's
\* process-wide generator at the call.
random_state(global) == RANDOM_STATE

\* One step of the generator (a small linear congruential generator stands
\* in for the Mersenne Twister: the draw is a function of the state alone).
rng_next(s) == (s * 75 + 74) % 65537

RECURSIVE shuffle(_, _, _)
\* Fisher-Yates shuffle of the sequence p from position i down, drawing
\* from generator state s.
shuffle(p, i, s) ==
    IF i <= 1 THEN p
    ELSE LET s2 == rng_next(s)
             j  == (s2 % i) + 1
             q  == [p EXCEPT ![i] = p[j], ![j] = p[i]]
         IN shuffle(q, i - 1, s2)

\* rng.permutation(n_samples): a permutation of the positions 1..n.
permutation(seed, n) == shuffle([i \in 1..n |-> i], n, seed)

\* ind_test = permutation[:n_test]
ind_test(perm, n_test) == SubSeq(perm, 1, n_test)

\* permutation[n_test - 1:(n_test + n_train - 1)]: the slice one position early.
ind_train_overlap(perm, n_test, n_train) ==
    SubSeq(perm, n_test, n_test + n_train - 1)

\* ind_train = permutation[n_test:(n_test + n_train)]
ind_train(perm, n_test, n_train) == SubSeq(perm, n_test + 1, n_test + n_train)

\* Positional row selection (iloc) of a frame.
take(t, ind) ==
    [columns |-> t.columns, rows |-> [i \in 1..Len(ind) |-> t.rows[ind[i]]]]

\* train_test_split: [ok, train, test, error].
train_test_split(t, ts, global) ==
    LET n       == Len(t.rows)
        n_test  == n_test_of(ts, n)
        n_train == n - n_test
        perm    == permutation(random_state(global), n)
    IN IF ~test_size_valid(ts, n) \/ n_train = 0
       THEN [ok |-> FALSE, train |-> EmptyFrame, test |-> EmptyFrame,
             error |-> "ValueError"]
       ELSE [ok |-> TRUE,
             train |-> take(t, ind_train(perm, n_test, n_train)),
             test  |-> take(t, ind_test(perm, n_test)),
             error |-> ""]

(***************************************************************************)
(* load_params (lines 12-27).  The parsed params.yaml is                   *)
(* [file, top, top_keys, di, di_keys, test_size]: file is "absent",        *)
(* "malformed" or "ok"; top and di are the kinds ("null" or "map") of the  *)
(* document and of its data_ingestion value.                               *)
(***************************************************************************)

Params(file, top, top_keys, di, di_keys, ts) ==
    [file |-> file, top |-> top, top_keys |-> top_keys,
     di |-> di, di_keys |-> di_keys, test_size |-> ts]

\* obj[key] on a YAML value of the given kind: "" when the lookup succeeds,
\* else the exception it raises.
getitem(kind, keys, key) ==
    IF kind # "map" THEN "TypeError"
    ELSE IF key \notin keys THEN "KeyError"
    ELSE ""

\* The except clauses of load_params: the exceptions it logs before re-raising.
load_params_logs(e) == e \in {"FileNotFoundError", "KeyError", "YAMLError"}

\* load_params(params_path): [ok, value, error, logged].
load_params(c) ==
    LET e1 == getitem(c.top, c.top_keys, "data_ingestion")
        e2 == getitem(c.di, c.di_keys, "test_size")
        e  == IF c.file = "absent" THEN "FileNotFoundError"
              ELSE IF c.file = "malformed" THEN "YAMLError"
              ELSE IF e1 # "" THEN e1
              ELSE e2
    IN [ok |-> e = "", value |-> c.test_size, error |-> e,
        logged |-> load_params_logs(e)]

(***************************************************************************)
(* read_data (lines 29-42).  The CSV source is [state, table]: state is    *)
(* "unreachable", "unparseable", "empty" (no columns to parse) or "ok".    *)
(***************************************************************************)

\* read_data(url): [ok, df, error]; every exception is logged and re-raised.
read_data(src) ==
    LET e == CASE src.state = "empty"       -> "EmptyDataError"
               [] src.state = "unparseable" -> "ParserError"
               [] src.state = "unreachable" -> "URLError"
               [] OTHER                     -> ""
    IN [ok |-> e = "", df |-> src.table, error |-> e]

(***************************************************************************)
(* save_data (lines 58-66)                                                 *)
(***************************************************************************)

\* DataFrame.to_csv(index=False): the header and the rows without the index.
to_csv(t) ==
    [columns |-> t.columns, lines |-> [i \in 1..Len(t.rows) |-> t.rows[i].cells]]

\* save_data(data_path, train_data, test_data) on the files of the
\* destination directory; fail is the step that raises ("" for none):
\* "makedirs", "train" or "test".  A train.csv written before test.csv fails
\* is left in place.
save_data(fs, train, test, fail) ==
    LET f1 == IF fail \in {"makedirs", "train"} THEN fs
              ELSE [n \in DOMAIN fs \cup {"train.csv"} |->
                      IF n = "train.csv" THEN to_csv(train) ELSE fs[n]]
        f2 == IF fail # "" THEN f1
              ELSE [n \in DOMAIN f1 \cup {"test.csv"} |->
                      IF n = "test.csv" THEN to_csv(test) ELSE f1[n]]
    IN [ok |-> fail = "", files |-> f2,
        error |-> IF fail = "" THEN "" ELSE "OSError"]

(***************************************************************************)
(* Inputs                                                                  *)
(***************************************************************************)

RECURSIVE SeqsUpTo(_, _)
\* The sequences over S of length at most n.
SeqsUpTo(S, n) ==
    IF n = 0 THEN {<<>>}
    ELSE LET shorter == SeqsUpTo(S, n - 1)
         IN shorter \cup {Append(s, x) : s \in {t \in shorter : Len(t) = n - 1}, x \in S}

\* The label column of the 10-row scenario table.
ScenarioLabels ==
    <<"happiness", "sadness", "neutral", "happiness", "sadness",
      "happiness", "neutral", "sadness", "happiness", "sadness">>

ScenarioTable == CsvTable(AllColumns, ScenarioLabels)

OkSource(t) == [state |-> "ok", table |-> t]

\* The CSV sources: the failing ones, and every table with a non-empty header
\* and at most MaxRows rows (a header with no rows included), and the
\* scenario table.
Sources ==
    {[state |-> s, table |-> EmptyFrame] : s \in {"unreachable", "unparseable", "empty"}}
    \cup {OkSource(CsvTable(cols, labels)) :
            cols \in (SUBSET AllColumns) \ {{}}, labels \in SeqsUpTo(Labels, MaxRows)}
    \cup {OkSource(ScenarioTable)}

\* The test_size values a params.yaml may hold: floats in quarters, integers
\* and null.
TestSizes ==
    {Float(k, 4) : k \in {-1, 0, 1, 2, 4}}
    \cup {Integer(k) : k \in 0..(MaxRows - 1)}
    \cup {Null}

OkParams(ts) == Params("ok", "map", {"data_ingestion"}, "map", {"test_size"}, ts)

\* The params.yaml contents: no file, unparseable, an empty document, a
\* mapping without data_ingestion, data_ingestion with no value, a
\* data_ingestion mapping without test_size, and the well-formed ones.
Configs ==
    {Params("absent", "null", {}, "null", {}, Null),
     Params("malformed", "null", {}, "null", {}, Null),
     Params("ok", "null", {}, "null", {}, Null),
     Params("ok", "map", {}, "null", {}, Null),
     Params("ok", "map", {"data_ingestion"}, "null", {}, Null),
     Params("ok", "map", {"data_ingestion"}, "map", {}, Null)}
    \cup {OkParams(ts) : ts \in TestSizes}

\* The states of numpy's process-wide generator at the split.
Entropy == {7, 11}

(***************************************************************************)
(* main (lines 68-92)                                                      *)
(***************************************************************************)

VARIABLES
    pc,          \* position of main: "start", "config_loaded", "data_loaded",
                 \* "data_filtered", "data_split", "data_saved", "failed"
                 \* (after the except clause), "exited"
    config,      \* params.yaml
    source,      \* the CSV at the URL
    files,       \* data/raw: file name -> content
    log,         \* ml_pipeline.log
    test_size,   \* main's locals, <<>> while unbound, else <<value>>
    df,
    final_df,
    train_data,
    test_data,
    error,       \* the exception that reached main's except clause, or ""
    calls,       \* the stage functions main has called in this run
    exit_code,   \* <<>> while running, <<status>> once the process has ended
    runs,        \* number of the current run of the script
    prev         \* the splits of earlier runs: [table, test_size, train, test]

vars == <<pc, config, source, files, log, test_size, df, final_df, train_data,
          test_data, error, calls, exit_code, runs, prev>>

Info(by)       == [level |-> "INFO", by |-> by, what |-> ""]
Error(by, e)   == [level |-> "ERROR", by |-> by, what |-> e]

\* A stage call whose exception is swallowed: main goes on regardless.
after_call_continue(ok, succ) == succ

\* Where main goes after a stage call: on to succ, or into the except clause.
after_call(ok, succ) == IF ok THEN succ ELSE "failed"

\* The log lines of a stage call that raised e: the stage's own (if it logs
\* e) and the one of main's except clause (line 90).
FailureLog(by, stage_logs, e) ==
    (IF stage_logs THEN <<Error(by, e)>> ELSE <<>>) \o <<Error("main", e)>>

NoFiles == [n \in {} |-> EmptyFrame]

FreshRun ==
    /\ pc = "start"
    /\ test_size = <<>> /\ df = <<>> /\ final_df = <<>>
    /\ train_data = <<>> /\ test_data = <<>>
    /\ error = "" /\ calls = <<>> /\ exit_code = <<>>

Init ==
    /\ config \in Configs
    /\ source \in Sources
    /\ files = NoFiles
    /\ log = <<>>
    /\ runs = 1
    /\ prev = {}
    /\ FreshRun

\* Lines 69-73: log the start, test_size = load_params('params.yaml').
LoadParams ==
    /\ pc = "start"
    /\ LET r == load_params(config)
       IN /\ pc' = after_call(r.ok, "config_loaded")
          /\ test_size' = IF r.ok THEN <<r.value>> ELSE test_size
          /\ error' = r.error
          /\ log' = log \o <<Info("main")>> \o
                    (IF r.ok THEN <<Info("load_params")>>
                     ELSE FailureLog("load_params", r.logged, r.error))
    /\ calls' = Append(calls, "load_params")
    /\ UNCHANGED <<config, source, files, df, final_df, train_data, test_data,
                   exit_code, runs, prev>>

\* Line 76: df = read_data(url).
ReadData ==
    /\ pc = "config_loaded"
    /\ LET r == read_data(source)
       IN /\ pc' = after_call(r.ok, "data_loaded")
          /\ df' = IF r.ok THEN <<r.df>> ELSE df
          /\ error' = r.error
          /\ log' = log \o (IF r.ok THEN <<Info("read_data")>>
                            ELSE FailureLog("read_data", TRUE, r.error))
    /\ calls' = Append(calls, "read_data")
    /\ UNCHANGED <<config, source, files, test_size, final_df, train_data,
                   test_data, exit_code, runs, prev>>

\* Line 79: final_df = process_data(df); df names the frame the call mutates.
ProcessData ==
    /\ pc = "data_loaded"
    /\ LET r == process_data(df[1])
       IN /\ pc' = after_call(r.ok, "data_filtered")
          /\ df' = <<r.df>>
          /\ final_df' = IF r.ok THEN <<r.result>> ELSE final_df
          /\ error' = r.error
          /\ log' = log \o (IF r.ok THEN <<Info("process_data")>>
                            ELSE FailureLog("process_data", TRUE, r.key))
    /\ calls' = Append(calls, "process_data")
    /\ UNCHANGED <<config, source, files, test_size, train_data, test_data,
                   exit_code, runs, prev>>

\* Lines 82-83: train_data, test_data = train_test_split(...), then the log.
SplitData ==
    /\ pc = "data_filtered"
    /\ \E global \in Entropy :
         LET r == train_test_split(final_df[1], test_size[1], global)
         IN /\ pc' = after_call(r.ok, "data_split")
            /\ train_data' = IF r.ok THEN <<r.train>> ELSE train_data
            /\ test_data' = IF r.ok THEN <<r.test>> ELSE test_data
            /\ error' = r.error
            /\ log' = log \o (IF r.ok THEN <<Info("main")>>
                              ELSE FailureLog("train_test_split", FALSE, r.error))
    /\ calls' = Append(calls, "train_test_split")
    /\ UNCHANGED <<config, source, files, test_size, df, final_df, exit_code,
                   runs, prev>>

\* Lines 86-87: save_data(data_path, train_data, test_data).
SaveData ==
    /\ pc = "data_split"
    /\ \E fail \in {"", "makedirs", "train", "test"} :
         LET r == save_data(files, train_data[1], test_data[1], fail)
         IN /\ pc' = after_call(r.ok, "data_saved")
            /\ files' = r.files
            /\ error' = r.error
            /\ log' = log \o (IF r.ok THEN <<Info("save_data")>>
                              ELSE FailureLog("save_data", TRUE, r.error))
    /\ calls' = Append(calls, "save_data")
    /\ UNCHANGED <<config, source, test_size, df, final_df, train_data,
                   test_data, exit_code, runs, prev>>

\* The status the process ends with once main has returned: main returns
\* normally on both paths, so the interpreter exits with 0.
exit_status(failed) == 0

\* Line 92 and the return of main, reached from the try block's end and from
\* the except clause alike.
Finish ==
    /\ pc \in {"data_saved", "failed"}
    /\ pc' = "exited"
    /\ log' = Append(log, Info("main"))
    /\ exit_code' = <<exit_status(error # "")>>
    /\ UNCHANGED <<config, source, files, test_size, df, final_df, train_data,
                   test_data, error, calls, runs, prev>>

Next == LoadParams \/ ReadData \/ ProcessData \/ SplitData \/ SaveData \/ Finish

Spec == Init /\ [][Next]_vars

(***************************************************************************)
(* Running the script again: a new process with fresh locals; data/raw and *)
(* ml_pipeline.log persist, params.yaml may have been edited.              *)
(***************************************************************************)

RerunConfigs == {OkParams(ts) : ts \in {Float(1, 4), Float(2, 4), Integer(1), Null}}

InitRerun ==
    /\ config \in RerunConfigs
    /\ source \in Sources
    /\ files = NoFiles
    /\ log = <<>>
    /\ runs = 1
    /\ prev = {}
    /\ FreshRun

Rerun ==
    /\ pc = "exited"
    /\ runs < MaxRuns
    /\ runs' = runs + 1
    /\ prev' = IF train_data # <<>>
               THEN prev \cup {[table |-> final_df[1], test_size |-> test_size[1],
                                train |-> train_data[1], test |-> test_data[1]]}
               ELSE prev
    /\ config' \in RerunConfigs
    /\ pc' = "start"
    /\ test_size' = <<>> /\ df' = <<>> /\ final_df' = <<>>
    /\ train_data' = <<>> /\ test_data' = <<>>
    /\ error' = "" /\ calls' = <<>> /\ exit_code' = <<>>
    /\ UNCHANGED <<source, files, log>>

NextRerun ==
    LoadParams \/ ReadData \/ ProcessData \/ SplitData \/ SaveData \/ Finish \/ Rerun

SpecRerun == InitRerun /\ [][NextRerun]_vars

(***************************************************************************)
(* Properties                                                              *)
(***************************************************************************)

StageOrder ==
    <<"load_params", "read_data", "process_data", "train_test_split", "save_data">>

Called(stage) == stage \in Range(calls)

\* The number of stage calls behind each position of the try block.
Progress ==
    [p \in {"start", "config_loaded", "data_loaded", "data_filtered",
            "data_split", "data_saved"} |->
       CASE p = "start"         -> 0
         [] p = "config_loaded" -> 1
         [] p = "data_loaded"   -> 2
         [] p = "data_filtered" -> 3
         [] p = "data_split"    -> 4
         [] OTHER               -> 5]

C1_RunState ==
    /\ calls = SubSeq(StageOrder, 1, Len(calls))
    /\ pc \in DOMAIN Progress => Len(calls) = Progress[pc] /\ error = ""
    /\ pc = "failed" => error # "" /\ calls # <<>>
    /\ Called("save_data") =>
         test_size # <<>> /\ df # <<>> /\ final_df # <<>>
         /\ train_data # <<>> /\ test_data # <<>>

\* C1: the stages are called in the order load_params, read_data,
\* process_data, train_test_split, save_data, one call per transition; a
\* failing call moves the run to the failed position at once, after which no
\* further stage is called; save_data is called only after the four stages
\* before it have all returned.
C1_StagesInOrder ==
    [](C1_RunState) /\ [][error # "" => calls' = calls]_vars

\* A run that failed in process_data and ended without calling the split or
\* the save.
C1_Witness ==
    /\ pc = "exited"
    /\ error = "KeyError"
    /\ calls = <<"load_params", "read_data", "process_data">>
    /\ files = NoFiles

Sentiments(t) == [i \in 1..Len(t.rows) |-> t.rows[i].cells["sentiment"]]

\* C2: for an input table with the tweet_id, content and sentiment columns,
\* the filter's result holds exactly the rows labelled happiness or sadness,
\* in their original order, without the tweet_id column, with content
\* unchanged and sentiment recoded to 1 for happiness and 0 for sadness; the
\* scenario table gives the 8 labels 1,0,1,0,1,0,1,0.
C2_FilterResult ==
    (final_df # <<>> /\ source.table.columns = AllColumns) =>
      LET t == source.table
          r == final_df[1]
          n == Len(r.rows)
      IN /\ r.columns = {"sentiment", "content"}
         /\ \A i \in 1..n : DOMAIN r.rows[i].cells = {"sentiment", "content"}
         /\ \A i \in 1..(n - 1) : r.rows[i].index < r.rows[i + 1].index
         /\ {r.rows[i].index : i \in 1..n} =
              {j - 1 : j \in {k \in 1..Len(t.rows) :
                         t.rows[k].cells["sentiment"] \in
                           {StrVal("happiness"), StrVal("sadness")}}}
         /\ \A i \in 1..n :
              LET o == t.rows[r.rows[i].index + 1]
              IN /\ r.rows[i].cells["content"] = o.cells["content"]
                 /\ o.cells["sentiment"] = StrVal("happiness")
                      => r.rows[i].cells["sentiment"] = IntVal(1)
                 /\ o.cells["sentiment"] = StrVal("sadness")
                      => r.rows[i].cells["sentiment"] = IntVal(0)
         /\ t = ScenarioTable =>
              Sentiments(r) = <<IntVal(1), IntVal(0), IntVal(1), IntVal(0),
                                IntVal(1), IntVal(0), IntVal(1), IntVal(0)>>

\* The scenario table has been filtered: 10 rows in, 8 rows out.
C2_Witness ==
    /\ final_df # <<>>
    /\ source.table = ScenarioTable
    /\ Len(source.table.rows) = 10
    /\ Len(final_df[1].rows) = 8

Indexes(t) == {t.rows[i].index : i \in 1..Len(t.rows)}

\* C3: the train and test tables partition the filtered table: the sizes add
\* up, no row is in both or repeated, none is left out, and each row is the
\* filtered table's row of that index.
C3_Partition ==
    train_data # <<>> =>
      LET t  == final_df[1]
          tr == train_data[1]
          te == test_data[1]
      IN /\ Len(tr.rows) + Len(te.rows) = Len(t.rows)
         /\ Indexes(tr) \cap Indexes(te) = {}
         /\ Indexes(tr) \cup Indexes(te) = Indexes(t)
         /\ Cardinality(Indexes(tr)) = Len(tr.rows)
         /\ Cardinality(Indexes(te)) = Len(te.rows)
         /\ Range(tr.rows) \cup Range(te.rows) = Range(t.rows)
         /\ tr.columns = t.columns /\ te.columns = t.columns

\* The 8-row filtered scenario table split with test_size 0.25: 2 test rows
\* and 6 train rows.
C3_Witness ==
    /\ train_data # <<>>
    /\ test_size = <<Float(1, 4)>>
    /\ Len(final_df[1].rows) = 8
    /\ Len(test_data[1].rows) = 2
    /\ Len(train_data[1].rows) = 6

\* A test_size outside the open interval (0,1).
OutOfRange(ts) == ts.kind # "none" /\ (ts.num <= 0 \/ ts.num >= ts.den)

\* C4: a test_size <= 0 or >= 1 makes the split fail: the run is failed at
\* the split and no train or test file is written.
C4_OutOfRangeFails ==
    (Called("train_test_split") /\ OutOfRange(test_size[1])) =>
      /\ error = "ValueError"
      /\ ~Called("save_data")
      /\ files = NoFiles

\* params.yaml parses but holds no data_ingestion.test_size.
KeyAbsent(c) ==
    /\ c.file = "ok"
    /\ ~(c.top = "map" /\ "data_ingestion" \in c.top_keys
         /\ c.di = "map" /\ "test_size" \in c.di_keys)

\* C5: when params.yaml lacks data_ingestion.test_size, load_params logs the
\* failure and raises the KeyError, no default is used, the dataset is not
\* read and no file is written.
C5_MissingKeyLoggedAndRaised ==
    (Called("load_params") /\ KeyAbsent(config)) =>
      /\ error = "KeyError"
      /\ Error("load_params", "KeyError") \in Range(log)
      /\ test_size = <<>>
      /\ ~Called("read_data") /\ df = <<>>
      /\ files = NoFiles

\* The source has no data rows: nothing at all, or a header only.
ZeroRows(src) ==
    src.state = "empty" \/ (src.state = "ok" /\ src.table.rows = <<>>)

\* C6: when the source has zero rows, read_data raises the empty-source
\* error instead of returning an empty table, and the filter is not called.
C6_ZeroRowsRaises ==
    (Called("read_data") /\ ZeroRows(source)) =>
      /\ error = "EmptyDataError"
      /\ df = <<>>
      /\ ~Called("process_data")

\* C7: the exit status of the process is non-zero exactly when a stage
\* failed.
C7_ExitDistinguishes ==
    exit_code # <<>> => ((exit_code[1] # 0) <=> (error # ""))

\* C8 as stated: after process_data was called, the table passed to it has
\* the same columns and rows as before.
C8_InputUnchanged ==
    Called("process_data") => df[1] = source.table

\* C8 amended: after process_data was called, the table passed to it has
\* lost its tweet_id column (when it had one) and is otherwise as before:
\* the other columns, the rows, their order, index and cell values, the
\* sentiment labels not recoded.
C8_InputLosesIdOnly ==
    Called("process_data") =>
      LET t == source.table
          d == df[1]
      IN /\ d.columns = t.columns \ {"tweet_id"}
         /\ Len(d.rows) = Len(t.rows)
         /\ \A i \in 1..Len(t.rows) :
              /\ d.rows[i].index = t.rows[i].index
              /\ DOMAIN d.rows[i].cells = t.columns \ {"tweet_id"}
              /\ \A k \in t.columns \ {"tweet_id"} :
                   d.rows[i].cells[k] = t.rows[i].cells[k]

\* process_data returned for a table with a tweet_id column, rows kept and
\* rows dropped.
C8_Witness ==
    /\ Called("process_data")
    /\ final_df # <<>>
    /\ "tweet_id" \in source.table.columns
    /\ "tweet_id" \notin df[1].columns
    /\ Len(final_df[1].rows) > 0
    /\ Len(final_df[1].rows) < Len(df[1].rows)

\* process_data raised a KeyError naming column c and returned nothing.
MissingColumnFailure(c) ==
    /\ error = "KeyError"
    /\ final_df = <<>>
    /\ Error("process_data", c) \in Range(log)

\* C9 as stated: process_data fails with a missing-column error naming the
\* column whenever the table lacks any of tweet_id, content, sentiment.
C9_AnyMissingColumnFails ==
    (Called("process_data") /\ source.table.columns # AllColumns) =>
      \E c \in AllColumns \ source.table.columns : MissingColumnFailure(c)

\* C9 amended: process_data fails with a KeyError naming the column when
\* the table lacks tweet_id (named first) or sentiment, and returns nothing;
\* a table that has both is processed whether or not it has a content
\* column.
C9_IdOrSentimentMissingFails ==
    Called("process_data") =>
      LET cols == source.table.columns
      IN IF "tweet_id" \notin cols THEN MissingColumnFailure("tweet_id")
         ELSE IF "sentiment" \notin cols THEN MissingColumnFailure("sentiment")
         ELSE final_df # <<>>

\* process_data was called on a table of 2 rows without sentiment column
\* and raised the KeyError naming it.
C9_Witness ==
    /\ Called("process_data")
    /\ source.table.columns = {"tweet_id", "content"}
    /\ Len(source.table.rows) = 2
    /\ MissingColumnFailure("sentiment")

\* C10: a split of the same filtered table with the same test_size as in an
\* earlier run puts the same rows in train and the same rows in test.
C10_Deterministic ==
    train_data # <<>> =>
      \A p \in prev :
        (p.table = final_df[1] /\ p.test_size = test_size[1]) =>
          (p.train = train_data[1] /\ p.test = test_data[1])

\* A second run split the same table of at least 3 rows with the same
\* test_size as the first.
C10_Witness ==
    /\ train_data # <<>>
    /\ runs = 2
    /\ Len(final_df[1].rows) >= 3
    /\ \E p \in prev : p.table = final_df[1] /\ p.test_size = test_size[1]

====
